---- MODULE Spec2Model ----
(***************************************************************************)
(* Habit-tracker backend: the REST handlers of the goals, habits and      *)
(* journal apps over the relational tables Goal, GoalProgress, Habit,     *)
(* HabitLog and JournalEntry.                                              *)
(*                                                                         *)
(* Decimal(10,2) values are modelled as integers in whole units           *)
(* (100 stands for 100.00).  Every request handler of the sequential      *)
(* specifications is one action: the framework's object lookup            *)
(* (get_object over get_queryset), the serializer validation, and the     *)
(* viewset's perform_create / perform_update / perform_destroy hook.      *)
(***************************************************************************)
EXTENDS Integers, FiniteSets, Sequences, TLC

VARIABLES goals, progress, habits, logs, journal, accounts, nextId, resp, reqs

vars == <<goals, progress, habits, logs, journal, accounts, nextId, resp, reqs>>
db == <<goals, progress, habits, logs, journal, accounts, nextId>>

(***************************************************************************)
(* Bounds of the model.                                                    *)
(***************************************************************************)
\* rows ever inserted, over all tables
MaxRows == 3
\* |current_value| a request may produce
MaxValue == 150
\* requests in flight at once in the interleaved specification
MaxInFlight == 2
\* users the registration specification lets register
MaxAccounts == 3
\* last day (as a day number) a stored log or journal entry of the statistics
\* specification carries
MaxDay == 6

Users == {"A", "B"}
\* amounts a GoalProgress request body carries
AmountSet == {100, 150}
\* current_value a Goal request body carries
ValueSet == {0, 100}
\* days, as day numbers
DateSet == {1, 2}
NameSet == {"n1", "n2"}
\* target_value a Goal request body carries
TargetSet == {0, 100}
\* amounts of either sign
SignedAmountSet == {-50, 100}
\* primary keys a table may issue, and the first one it never issues
IdSet == 1..(MaxRows + 1)

(***************************************************************************)
(* Tables: functions from primary key to row.                              *)
(***************************************************************************)
Insert(table, id, row) == table @@ (id :> row)

Remove(table, ids) == [k \in (DOMAIN table) \ ids |-> table[k]]

RowsUsed ==
    (nextId.goal - 1) + (nextId.progress - 1) + (nextId.habit - 1)
    + (nextId.log - 1) + (nextId.journal - 1)

CanInsert == RowsUsed < MaxRows

InRange(v) == v >= -MaxValue /\ v <= MaxValue

\* a response: the request it answers (the operation and the primary key in its
\* URL, 0 when it has none), the status, the primary keys of the rows in its body,
\* for a rejected body the error code of the validator that rejected it, and
\* for a statistics request the figures
Response(op, pk, status, ids) ==
    [op |-> op, pk |-> pk, status |-> status, ids |-> ids, code |-> "-", body |-> <<>>]

Invalid(op, pk, code) ==
    [op |-> op, pk |-> pk, status |-> 400, ids |-> {}, code |-> code, body |-> <<>>]

\* a 200 response of a statistics endpoint: the computed figures are its body
Computed(op, body) ==
    [op |-> op, pk |-> 0, status |-> 200, ids |-> {}, code |-> "-", body |-> body]

\* the users the callers of the model are: both are registered
Registered == <<[username |-> "A"], [username |-> "B"]>>

Init ==
    /\ goals = <<>>
    /\ progress = <<>>
    /\ habits = <<>>
    /\ logs = <<>>
    /\ journal = <<>>
    /\ accounts = Registered
    /\ nextId = [goal |-> 1, progress |-> 1, habit |-> 1, log |-> 1, journal |-> 1]
    /\ resp = Response("-", 0, 0, {})
    /\ reqs = <<>>

(***************************************************************************)
(* Scoped querysets (get_queryset of each viewset).                        *)
(***************************************************************************)
\* the queryset without the filter on the caller
GoalQuerysetAll(u) == DOMAIN goals

GoalQueryset(u) == {g \in DOMAIN goals : goals[g].user = u}

ProgressQueryset(u) == {p \in DOMAIN progress : goals[progress[p].goal].user = u}

HabitQueryset(u) == {h \in DOMAIN habits : habits[h].user = u}

LogQueryset(u) == {l \in DOMAIN logs : habits[logs[l].habit].user = u}

JournalQueryset(u) == {j \in DOMAIN journal : journal[j].user = u}

(***************************************************************************)
(* Goals.                                                                  *)
(***************************************************************************)
\* target_value = models.DecimalField(default=Decimal('1.00'))
target_default == 1

\* read_only_fields = ['user']: the body's user is dropped by the serializer;
\* a body without target_value
GoalValidated(bodyUser, cv) == [current_value |-> cv]

\* current_value read-only in the serializer: the body's value is dropped
GoalValidatedTargetDefault(bodyUser, tv, cv) ==
    [target_value |-> tv, current_value |-> 0]

\* a body with target_value and current_value
GoalValidatedTarget(bodyUser, tv, cv) == [target_value |-> tv, current_value |-> cv]

\* the owner taken from the request body
GoalOwnerFromBody(u, bodyUser) == bodyUser

\* serializer.save(user=self.request.user)
GoalOwnerOnCreate(u, bodyUser) == u

\* POST with a body that carries target_value
GoalCreateTarget(u, bodyUser, tv, cv) ==
    /\ CanInsert
    /\ LET data == GoalValidatedTarget(bodyUser, tv, cv)
           id == nextId.goal
       IN /\ goals' = Insert(goals, id,
                 [user |-> GoalOwnerOnCreate(u, bodyUser),
                  target_value |-> data.target_value,
                  current_value |-> data.current_value])
          /\ nextId' = [nextId EXCEPT !.goal = id + 1]
          /\ resp' = Response("GoalCreate", 0, 201, {id})
    /\ UNCHANGED <<progress, habits, logs, journal, reqs, accounts>>

\* POST with a body without target_value: the column's default is stored
GoalCreate(u, bodyUser, cv) ==
    /\ CanInsert
    /\ LET data == GoalValidated(bodyUser, cv)
           id == nextId.goal
       IN /\ goals' = Insert(goals, id,
                 [user |-> GoalOwnerOnCreate(u, bodyUser),
                  target_value |-> target_default,
                  current_value |-> data.current_value])
          /\ nextId' = [nextId EXCEPT !.goal = id + 1]
          /\ resp' = Response("GoalCreate", 0, 201, {id})
    /\ UNCHANGED <<progress, habits, logs, journal, reqs, accounts>>

GoalList(u) ==
    /\ resp' = Response("GoalList", 0, 200, GoalQueryset(u))
    /\ UNCHANGED <<db, reqs>>

GoalRetrieve(u, g) ==
    /\ resp' = IF g \in GoalQueryset(u)
               THEN Response("GoalRetrieve", g, 200, {g})
               ELSE Response("GoalRetrieve", g, 404, {})
    /\ UNCHANGED <<db, reqs>>

GoalOwnerOnUpdate(old, bodyUser) == old

\* PUT/PATCH with a body without target_value: the stored one stays
GoalUpdate(u, g, bodyUser, cv) ==
    /\ IF g \notin GoalQueryset(u)
       THEN /\ resp' = Response("GoalUpdate", g, 404, {})
            /\ UNCHANGED goals
       ELSE LET data == GoalValidated(bodyUser, cv)
            IN /\ goals' = [goals EXCEPT ![g] =
                      [user |-> GoalOwnerOnUpdate(goals[g].user, bodyUser),
                       target_value |-> goals[g].target_value,
                       current_value |-> data.current_value]]
               /\ resp' = Response("GoalUpdate", g, 200, {g})
    /\ UNCHANGED <<progress, habits, logs, journal, nextId, reqs, accounts>>

\* PUT with a body that carries target_value
GoalUpdateTarget(u, g, bodyUser, tv, cv) ==
    /\ IF g \notin GoalQueryset(u)
       THEN /\ resp' = Response("GoalUpdate", g, 404, {})
            /\ UNCHANGED goals
       ELSE LET data == GoalValidatedTarget(bodyUser, tv, cv)
            IN /\ goals' = [goals EXCEPT ![g] =
                      [user |-> GoalOwnerOnUpdate(goals[g].user, bodyUser),
                       target_value |-> data.target_value,
                       current_value |-> data.current_value]]
               /\ resp' = Response("GoalUpdate", g, 200, {g})
    /\ UNCHANGED <<progress, habits, logs, journal, nextId, reqs, accounts>>

(***************************************************************************)
(* Exact quotients (Decimal division) as fractions with a positive         *)
(* denominator, and Python's round(): to the nearest integer, a tie to     *)
(* the even one.                                                           *)
(***************************************************************************)
Rat(n, d) == IF d < 0 THEN [num |-> -n, den |-> -d] ELSE [num |-> n, den |-> d]

RatLeq(a, b) == a.num * b.den <= b.num * a.den

RatEq(a, b) == a.num * b.den = b.num * a.den

RatMin(a, b) == IF RatLeq(a, b) THEN a ELSE b

\* n / d cut down to the integer below it
RoundDown(n, d) == n \div d

\* round(n / d), d > 0
Round(n, d) ==
    LET q == n \div d
        r == n % d
    IN IF 2 * r < d THEN q
       ELSE IF 2 * r > d THEN q + 1
       ELSE IF q % 2 = 0 THEN q ELSE q + 1

Min(a, b) == IF a <= b THEN a ELSE b

\* Goal.progress_percentage
progress_percentage(goal) ==
    IF goal.target_value = 0
    THEN Rat(0, 1)
    ELSE RatMin(Rat(100, 1), Rat(goal.current_value * 100, goal.target_value))

\* complete only above the target
is_complete_above(goal) == goal.current_value > goal.target_value

\* Goal.is_complete
is_complete(goal) == goal.current_value >= goal.target_value

\* goals.filter(current_value__gte=F('target_value'))
CompletedGoals(u) ==
    {g \in GoalQueryset(u) : goals[g].current_value >= goals[g].target_value}

\* the percentage of one goal in the statistics
StatsPercentage(goal) ==
    IF goal.target_value > 0
    THEN Min(100, Round(goal.current_value * 100, goal.target_value))
    ELSE IF goal.current_value >= goal.target_value THEN 100 ELSE 0

\* the figures of GET /goals/stats/; recent_progress are the caller's last ten
\* entries, which are all of them while a user has no more than ten
GoalStatsBody(u) ==
    LET total_goals == Cardinality(GoalQueryset(u))
        completed_goals == Cardinality(CompletedGoals(u))
    IN [total_goals |-> total_goals,
        completed_goals |-> completed_goals,
        in_progress_goals |-> total_goals - completed_goals,
        goal_stats |-> [g \in GoalQueryset(u) |->
            [percentage |-> StatsPercentage(goals[g]),
             is_complete |-> goals[g].current_value >= goals[g].target_value]],
        recent_progress |-> ProgressQueryset(u)]

\* statistics that store each goal's current_value capped at its target
GoalStatsCapping(u) ==
    /\ resp' = Computed("GoalStats", [total_goals |-> Cardinality(GoalQueryset(u))])
    /\ goals' = [g \in DOMAIN goals |->
                    [goals[g] EXCEPT !.current_value =
                        Min(goals[g].current_value, goals[g].target_value)]]
    /\ UNCHANGED <<progress, habits, logs, journal, nextId, reqs, accounts>>

\* GET /goals/stats/
GoalStats(u) ==
    /\ resp' = Computed("GoalStats", GoalStatsBody(u))
    /\ UNCHANGED <<db, reqs>>

\* on_delete=CASCADE on GoalProgress.goal
GoalDestroy(u, g) ==
    /\ IF g \notin GoalQueryset(u)
       THEN /\ resp' = Response("GoalDestroy", g, 404, {})
            /\ UNCHANGED <<goals, progress>>
       ELSE /\ goals' = Remove(goals, {g})
            /\ progress' = Remove(progress, {p \in DOMAIN progress : progress[p].goal = g})
            /\ resp' = Response("GoalDestroy", g, 204, {})
    /\ UNCHANGED <<habits, logs, journal, nextId, reqs, accounts>>

(***************************************************************************)
(* Goal progress and the progress-sync of Goal.current_value.              *)
(***************************************************************************)
\* Model.save(): UPDATE the row with this primary key, INSERT it when no row matched
SaveRow(table, id, row) ==
    IF id \in DOMAIN table THEN [table EXCEPT ![id] = row] ELSE Insert(table, id, row)

\* PrimaryKeyRelatedField of the serializer: the parent must exist (any owner)
ProgressValid(g) == g \in DOMAIN goals

\* goal.user != self.request.user
GoalForbidden(u, goal) == goal.user # u

\* the new amount added in full
AmountDiffNew(newAmount, oldAmount) == newAmount

\* amount_diff = progress.amount - old_amount
AmountDiff(newAmount, oldAmount) == newAmount - oldAmount

\* goal.current_value += delta on the loaded Goal object
Adjusted(goal, delta) == [goal EXCEPT !.current_value = @ + delta]

ProgressCreate(u, g, a) ==
    /\ IF ~ProgressValid(g)
       THEN /\ resp' = Invalid("ProgressCreate", 0, "does_not_exist")
            /\ UNCHANGED <<goals, progress, nextId>>
       ELSE LET goal == goals[g]
                id == nextId.progress
            IN IF GoalForbidden(u, goal)
               THEN /\ resp' = Response("ProgressCreate", 0, 403, {})
                    /\ UNCHANGED <<goals, progress, nextId>>
               ELSE /\ CanInsert
                    /\ InRange(goal.current_value + a)
                    /\ progress' = Insert(progress, id, [goal |-> g, amount |-> a])
                    /\ nextId' = [nextId EXCEPT !.progress = id + 1]
                    /\ goals' = SaveRow(goals, g, Adjusted(goal, a))
                    /\ resp' = Response("ProgressCreate", 0, 201, {id})
    /\ UNCHANGED <<habits, logs, journal, reqs, accounts>>

ProgressList(u) ==
    /\ resp' = Response("ProgressList", 0, 200, ProgressQueryset(u))
    /\ UNCHANGED <<db, reqs>>

ProgressRetrieve(u, p) ==
    /\ resp' = IF p \in ProgressQueryset(u)
               THEN Response("ProgressRetrieve", p, 200, {p})
               ELSE Response("ProgressRetrieve", p, 404, {})
    /\ UNCHANGED <<db, reqs>>

ProgressUpdate(u, p, g, a) ==
    /\ IF p \notin ProgressQueryset(u)
       THEN /\ resp' = Response("ProgressUpdate", p, 404, {})
            /\ UNCHANGED <<goals, progress>>
       ELSE IF ~ProgressValid(g)
       THEN /\ resp' = Invalid("ProgressUpdate", p, "does_not_exist")
            /\ UNCHANGED <<goals, progress>>
       ELSE LET old_amount == progress[p].amount
                goal == goals[g]
                amount_diff == AmountDiff(a, old_amount)
            IN /\ InRange(goal.current_value + amount_diff)
               /\ progress' = SaveRow(progress, p, [goal |-> g, amount |-> a])
               /\ goals' = SaveRow(goals, g, Adjusted(goal, amount_diff))
               /\ resp' = Response("ProgressUpdate", p, 200, {p})
    /\ UNCHANGED <<habits, logs, journal, nextId, reqs, accounts>>

ProgressDestroy(u, p) ==
    /\ IF p \notin ProgressQueryset(u)
       THEN /\ resp' = Response("ProgressDestroy", p, 404, {})
            /\ UNCHANGED <<goals, progress>>
       ELSE LET instance == progress[p]
                goal == goals[instance.goal]
            IN /\ InRange(goal.current_value - instance.amount)
               /\ goals' = SaveRow(goals, instance.goal, Adjusted(goal, -instance.amount))
               /\ progress' = Remove(progress, {p})
               /\ resp' = Response("ProgressDestroy", p, 204, {})
    /\ UNCHANGED <<habits, logs, journal, nextId, reqs, accounts>>

(***************************************************************************)
(* Habits and habit logs.                                                  *)
(***************************************************************************)
HabitOwnerOnCreate(u, bodyUser) == u

HabitCreate(u, bodyUser, name) ==
    /\ CanInsert
    /\ LET id == nextId.habit
       IN /\ habits' = Insert(habits, id,
                 [user |-> HabitOwnerOnCreate(u, bodyUser), name |-> name])
          /\ nextId' = [nextId EXCEPT !.habit = id + 1]
          /\ resp' = Response("HabitCreate", 0, 201, {id})
    /\ UNCHANGED <<goals, progress, logs, journal, reqs, accounts>>

HabitList(u) ==
    /\ resp' = Response("HabitList", 0, 200, HabitQueryset(u))
    /\ UNCHANGED <<db, reqs>>

HabitRetrieve(u, h) ==
    /\ resp' = IF h \in HabitQueryset(u)
               THEN Response("HabitRetrieve", h, 200, {h})
               ELSE Response("HabitRetrieve", h, 404, {})
    /\ UNCHANGED <<db, reqs>>

HabitUpdate(u, h, bodyUser, name) ==
    /\ IF h \notin HabitQueryset(u)
       THEN /\ resp' = Response("HabitUpdate", h, 404, {})
            /\ UNCHANGED habits
       ELSE /\ habits' = [habits EXCEPT ![h] = [user |-> habits[h].user, name |-> name]]
            /\ resp' = Response("HabitUpdate", h, 200, {h})
    /\ UNCHANGED <<goals, progress, logs, journal, nextId, reqs, accounts>>

\* on_delete=CASCADE on HabitLog.habit
HabitDestroy(u, h) ==
    /\ IF h \notin HabitQueryset(u)
       THEN /\ resp' = Response("HabitDestroy", h, 404, {})
            /\ UNCHANGED <<habits, logs>>
       ELSE /\ habits' = Remove(habits, {h})
            /\ logs' = Remove(logs, {l \in DOMAIN logs : logs[l].habit = h})
            /\ resp' = Response("HabitDestroy", h, 204, {})
    /\ UNCHANGED <<goals, progress, journal, nextId, reqs, accounts>>

\* no uniqueness check
LogUniqueOff(h, d, instance) == TRUE

\* unique_together = ['habit', 'date']: the serializer's UniqueTogetherValidator,
\* over all logs, leaving out the instance being updated
LogUnique(h, d, instance) ==
    ~\E l \in (DOMAIN logs) \ instance : logs[l].habit = h /\ logs[l].date = d

\* PrimaryKeyRelatedField of the serializer: the parent must exist (any owner)
LogHabitValid(h) == h \in DOMAIN habits

\* habit.user != self.request.user
HabitForbidden(u, habit) == habit.user # u

LogCreate(u, h, d) ==
    /\ IF ~LogHabitValid(h)
       THEN /\ resp' = Invalid("LogCreate", 0, "does_not_exist")
            /\ UNCHANGED <<logs, nextId>>
       ELSE IF ~LogUnique(h, d, {})
       THEN /\ resp' = Invalid("LogCreate", 0, "unique")
            /\ UNCHANGED <<logs, nextId>>
       ELSE IF HabitForbidden(u, habits[h])
       THEN /\ resp' = Response("LogCreate", 0, 403, {})
            /\ UNCHANGED <<logs, nextId>>
       ELSE LET id == nextId.log
            IN /\ CanInsert
               /\ logs' = Insert(logs, id, [habit |-> h, date |-> d])
               /\ nextId' = [nextId EXCEPT !.log = id + 1]
               /\ resp' = Response("LogCreate", 0, 201, {id})
    /\ UNCHANGED <<goals, progress, habits, journal, reqs, accounts>>

LogList(u) ==
    /\ resp' = Response("LogList", 0, 200, LogQueryset(u))
    /\ UNCHANGED <<db, reqs>>

LogRetrieve(u, l) ==
    /\ resp' = IF l \in LogQueryset(u)
               THEN Response("LogRetrieve", l, 200, {l})
               ELSE Response("LogRetrieve", l, 404, {})
    /\ UNCHANGED <<db, reqs>>

\* HabitLogViewSet defines no perform_update: the mixin's serializer.save()
LogUpdate(u, l, h, d) ==
    /\ IF l \notin LogQueryset(u)
       THEN /\ resp' = Response("LogUpdate", l, 404, {})
            /\ UNCHANGED logs
       ELSE IF ~LogHabitValid(h)
       THEN /\ resp' = Invalid("LogUpdate", l, "does_not_exist")
            /\ UNCHANGED logs
       ELSE IF ~LogUnique(h, d, {l})
       THEN /\ resp' = Invalid("LogUpdate", l, "unique")
            /\ UNCHANGED logs
       ELSE /\ logs' = SaveRow(logs, l, [habit |-> h, date |-> d])
            /\ resp' = Response("LogUpdate", l, 200, {l})
    /\ UNCHANGED <<goals, progress, habits, journal, nextId, reqs, accounts>>

LogDestroy(u, l) ==
    /\ IF l \notin LogQueryset(u)
       THEN /\ resp' = Response("LogDestroy", l, 404, {})
            /\ UNCHANGED logs
       ELSE /\ logs' = Remove(logs, {l})
            /\ resp' = Response("LogDestroy", l, 204, {})
    /\ UNCHANGED <<goals, progress, habits, journal, nextId, reqs, accounts>>

(***************************************************************************)
(* Streaks and weekly rates of the statistics endpoints.  Days are day     *)
(* numbers (date.toordinal()); day 1 is a Monday.                          *)
(***************************************************************************)
Max(a, b) == IF a >= b THEN a ELSE b

\* the walk back from the day before today
RECURSIVE CountBackFromYesterday(_, _, _)
CountBackFromYesterday(dates, check_date, streak) ==
    IF (check_date - 1) \in dates
    THEN CountBackFromYesterday(dates, check_date - 1, streak + 1)
    ELSE streak

\* while check_date in log_dates: current_streak += 1; check_date -= 1 day
RECURSIVE CountBack(_, _, _)
CountBack(dates, check_date, streak) ==
    IF check_date \in dates
    THEN CountBack(dates, check_date - 1, streak + 1)
    ELSE streak

current_streak(dates, today) == CountBack(dates, today, 0)

\* a walk that goes on through the days missing from the set, down to its
\* earliest date
RECURSIVE CountTestsPastGaps(_, _, _)
CountTestsPastGaps(dates, check_date, tests) ==
    IF \E d \in dates : d <= check_date
    THEN CountTestsPastGaps(dates, check_date - 1, tests + 1)
    ELSE tests + 1

\* the membership tests of the same while loop: one for each day counted and
\* the one that ends it
RECURSIVE CountTests(_, _, _)
CountTests(dates, check_date, tests) ==
    IF check_date \in dates
    THEN CountTests(dates, check_date - 1, tests + 1)
    ELSE tests + 1

\* sorted(log_dates): the days from the earliest to the latest date that are
\* in the set, in ascending order
SortedDates(dates) ==
    IF dates = {} THEN <<>>
    ELSE LET earliest == CHOOSE d \in dates : \A e \in dates : d <= e
             latest == CHOOSE d \in dates : \A e \in dates : d >= e
         IN SelectSeq([k \in 1..(latest - earliest + 1) |-> earliest + k - 1],
                      LAMBDA d : d \in dates)

\* the body of the for loop at index i: the run so far and the best closed run
BestStep(sorted_dates, i, at) ==
    IF sorted_dates[i] - sorted_dates[i - 1] = 1
    THEN [streak |-> at.streak + 1, best |-> at.best]
    ELSE [streak |-> 1, best |-> Max(at.best, at.streak)]

\* for i in range(1, len(sorted_dates)): the turns first..last of the loop in
\* order, begun at the values in `at`; a stretch of turns is its first half
\* followed by its second half, which begins at the values the first half
\* has ended with
RECURSIVE BestLoop(_, _, _, _)
BestLoop(sorted_dates, first, last, at) ==
    IF first > last THEN at
    ELSE IF first = last THEN BestStep(sorted_dates, first, at)
    ELSE LET middle == (first + last) \div 2
         IN CHOOSE after \in {BestLoop(sorted_dates, middle + 1, last, half) :
                                 half \in {BestLoop(sorted_dates, first, middle, at)}} :
                TRUE

\* the comparisons of the same for loop: one for each i in range(1, len)
RECURSIVE CountComparisons(_, _, _)
CountComparisons(sorted_dates, i, comparisons) ==
    IF i > Len(sorted_dates) THEN comparisons
    ELSE CountComparisons(sorted_dates, i + 1, comparisons + 1)

\* the best run closed inside the loop, without the run the loop ends in
best_streak_closed(dates) ==
    LET sorted_dates == SortedDates(dates)
    IN IF sorted_dates = <<>> THEN 0
       ELSE BestLoop(sorted_dates, 2, Len(sorted_dates), [streak |-> 1, best |-> 0]).best

best_streak(dates) ==
    LET sorted_dates == SortedDates(dates)
    IN IF sorted_dates = <<>> THEN 0
       ELSE LET after == BestLoop(sorted_dates, 2, Len(sorted_dates),
                                  [streak |-> 1, best |-> 0])
            IN Max(after.best, after.streak)

\* the day of the week counted from Sunday
weekday_from_sunday(d) == d % 7

\* date.weekday(): Monday is 0
weekday(d) == (d - 1) % 7

\* the rate cut down instead of rounded
WeekRateDown(week_completions, total_possible) ==
    IF total_possible > 0 THEN RoundDown(week_completions * 100, total_possible) ELSE 0

\* round((week_completions / total_possible) * 100) if total_possible > 0 else 0
WeekRate(week_completions, total_possible) ==
    IF total_possible > 0 THEN Round(week_completions * 100, total_possible) ELSE 0

\* one bucket of weekly_stats, over the dates of the caller's logs (one per log)
WeekBucket(total_habits, log_days, today, week_offset) ==
    LET week_start == today - (weekday(today) + week_offset * 7)
        week_end == Min(week_start + 6, today)
        days_in_week == (week_end - week_start) + 1
        total_possible == total_habits * days_in_week
        week_completions ==
            Cardinality({i \in DOMAIN log_days :
                            log_days[i] >= week_start /\ log_days[i] <= week_end})
    IN [week_start |-> week_start,
        completions |-> week_completions,
        possible |-> total_possible,
        rate |-> WeekRate(week_completions, total_possible)]

\* rate = round((completion_count / 90) * 100)
HabitRate(completion_count) == Round(completion_count * 100, 90)

\* one entry of habit_stats: the habit's logs from ninety_days_ago on
HabitStat(u, h, today) ==
    LET ninety_days_ago == today - 90
        completion_count ==
            Cardinality({l \in LogQueryset(u) :
                            logs[l].habit = h /\ logs[l].date >= ninety_days_ago})
    IN [id |-> h, completions |-> completion_count, rate |-> HabitRate(completion_count)]

\* habit_stats.sort(key=rate, reverse=True): highest rate first; the sort is
\* stable and the habits come newest first, so equal rates keep the newer
\* habit in front
RECURSIVE SortedByRate(_)
SortedByRate(stats) ==
    IF stats = {} THEN <<>>
    ELSE LET first == CHOOSE s \in stats :
                          \A t \in stats :
                              s.rate > t.rate \/ (s.rate = t.rate /\ s.id >= t.id)
         IN <<first>> \o SortedByRate(stats \ {first})

\* the figures of GET /habits/stats/
HabitStatsBody(u, today) ==
    LET mine == LogQueryset(u)
        log_days == [l \in mine |-> logs[l].date]
        log_dates == {log_days[l] : l \in mine}
        total_habits == Cardinality(HabitQueryset(u))
    IN [total_habits |-> total_habits,
        completions_today |-> Cardinality({l \in mine : log_days[l] = today}),
        current_streak |-> current_streak(log_dates, today),
        best_streak |-> best_streak(log_dates),
        weekly_stats |->
            [k \in 1..8 |-> WeekBucket(total_habits, log_days, today, 8 - k)],
        habit_stats |-> SortedByRate({HabitStat(u, h, today) : h \in HabitQueryset(u)})]

\* GET /habits/stats/
HabitStats(u, today) ==
    /\ resp' = Computed("HabitStats", HabitStatsBody(u, today))
    /\ UNCHANGED <<db, reqs>>

(***************************************************************************)
(* Journal entries.  The serializer has no user field at all.              *)
(***************************************************************************)
JournalOwnerOnCreate(u, bodyUser) == u

JournalCreate(u, bodyUser, d) ==
    /\ CanInsert
    /\ LET id == nextId.journal
       IN /\ journal' = Insert(journal, id,
                 [user |-> JournalOwnerOnCreate(u, bodyUser), date |-> d])
          /\ nextId' = [nextId EXCEPT !.journal = id + 1]
          /\ resp' = Response("JournalCreate", 0, 201, {id})
    /\ UNCHANGED <<goals, progress, habits, logs, reqs, accounts>>

JournalList(u) ==
    /\ resp' = Response("JournalList", 0, 200, JournalQueryset(u))
    /\ UNCHANGED <<db, reqs>>

JournalRetrieve(u, j) ==
    /\ resp' = IF j \in JournalQueryset(u)
               THEN Response("JournalRetrieve", j, 200, {j})
               ELSE Response("JournalRetrieve", j, 404, {})
    /\ UNCHANGED <<db, reqs>>

JournalUpdate(u, j, bodyUser, d) ==
    /\ IF j \notin JournalQueryset(u)
       THEN /\ resp' = Response("JournalUpdate", j, 404, {})
            /\ UNCHANGED journal
       ELSE /\ journal' = [journal EXCEPT ![j] = [user |-> journal[j].user, date |-> d]]
            /\ resp' = Response("JournalUpdate", j, 200, {j})
    /\ UNCHANGED <<goals, progress, habits, logs, nextId, reqs, accounts>>

JournalDestroy(u, j) ==
    /\ IF j \notin JournalQueryset(u)
       THEN /\ resp' = Response("JournalDestroy", j, 404, {})
            /\ UNCHANGED journal
       ELSE /\ journal' = Remove(journal, {j})
            /\ resp' = Response("JournalDestroy", j, 204, {})
    /\ UNCHANGED <<goals, progress, habits, logs, nextId, reqs, accounts>>

\* the figures of GET /journal/stats/
JournalStatsBody(u, today) ==
    LET entry_dates == {journal[j].date : j \in JournalQueryset(u)}
        week_start == today - weekday(today)
    IN [total_entries |-> Cardinality(JournalQueryset(u)),
        entries_this_week |->
            Cardinality({j \in JournalQueryset(u) : journal[j].date >= week_start}),
        current_streak |-> current_streak(entry_dates, today),
        best_streak |-> best_streak(entry_dates)]

\* GET /journal/stats/
JournalStats(u, today) ==
    /\ resp' = Computed("JournalStats", JournalStatsBody(u, today))
    /\ UNCHANGED <<db, reqs>>

(***************************************************************************)
(* Accounts: registration, the current user, and the permission every      *)
(* other view declares.  The user table is a sequence: the API deletes no  *)
(* user.                                                                   *)
(***************************************************************************)
\* usernames a registration body carries
UsernameSet == {"A", "B", "C", "D"}

\* the password of a registration body; Missing is a body without one
Missing == "missing"

PasswordSet == {Missing, "pw"}

\* the caller of a request that carries no valid credential
Anonymous == "anonymous"

UsernameUniqueOff(username) == TRUE

\* the unique validator the serializer takes from User.username
UsernameUnique(username) ==
    \A i \in DOMAIN accounts : accounts[i].username # username

\* POST /auth/register/
Register(username, password) ==
    /\ IF ~UsernameUnique(username)
       THEN /\ resp' = Invalid("Register", 0, "unique")
            /\ UNCHANGED accounts
       ELSE IF password = Missing
       THEN /\ resp' = Invalid("Register", 0, "required")
            /\ UNCHANGED accounts
       ELSE /\ Len(accounts) < MaxAccounts
            /\ accounts' = Append(accounts, [username |-> username])
            /\ resp' = Response("Register", 0, 201, {Len(accounts) + 1})
    /\ UNCHANGED <<goals, progress, habits, logs, journal, nextId, reqs>>

\* GET /auth/user/
CurrentUser(u) ==
    /\ resp' = Response("CurrentUser", 0, 200,
                        {i \in DOMAIN accounts : accounts[i].username = u})
    /\ UNCHANGED <<db, reqs>>

AllowAny(caller) == TRUE

\* permission_classes = [IsAuthenticated]
IsAuthenticated(caller) == caller # Anonymous

\* the answer to a request the permission turns away
NotAuthenticated(op, pk) ==
    /\ resp' = Response(op, pk, 401, {})
    /\ UNCHANGED <<db, reqs>>

\* the permission is checked before the handler runs
Guarded(caller, handler, op, pk) ==
    IF IsAuthenticated(caller) THEN handler ELSE NotAuthenticated(op, pk)

(***************************************************************************)
(* Lists with query parameters: the filter backends narrow the caller's    *)
(* queryset.  (An ordering parameter changes the order of the rows only,   *)
(* which a response's set of primary keys does not show.)                  *)
(***************************************************************************)
\* GoalFilter.filter_is_complete
filter_is_complete(queryset, value) ==
    IF value
    THEN {g \in queryset : goals[g].current_value >= goals[g].target_value}
    ELSE {g \in queryset : goals[g].current_value < goals[g].target_value}

\* GET /goals/?is_complete=<value>
GoalListFiltered(u, value) ==
    /\ resp' = Response("GoalList", 0, 200, filter_is_complete(GoalQueryset(u), value))
    /\ UNCHANGED <<db, reqs>>

\* GET /goals/progress/?goal=<g>
ProgressListFiltered(u, g) ==
    /\ resp' = Response("ProgressList", 0, 200,
                        {p \in ProgressQueryset(u) : progress[p].goal = g})
    /\ UNCHANGED <<db, reqs>>

\* GET /habits/?search=<term>: the names of the model have one length, so a
\* name contains a term when it is the term
HabitListSearch(u, term) ==
    /\ resp' = Response("HabitList", 0, 200,
                        {h \in HabitQueryset(u) : habits[h].name = term})
    /\ UNCHANGED <<db, reqs>>

\* GET /habits/logs/?habit=<h>&date=<d>
LogListFiltered(u, h, d) ==
    /\ resp' = Response("LogList", 0, 200,
                        {l \in LogQueryset(u) : logs[l].habit = h /\ logs[l].date = d})
    /\ UNCHANGED <<db, reqs>>

\* GET /journal/?date_after=<after>&date_before=<before>
JournalListFiltered(u, after, before) ==
    /\ resp' = Response("JournalList", 0, 200,
                        {j \in JournalQueryset(u) :
                            journal[j].date >= after /\ journal[j].date <= before})
    /\ UNCHANGED <<db, reqs>>

(***************************************************************************)
(* The API, one request after another.  Each app's requests, with the      *)
(* values their bodies carry drawn from the given sets.                    *)
(***************************************************************************)
\* the primary keys a request names: those issued so far and the next one, which
\* stands for every key that names no row
GoalIds == 1..nextId.goal

ProgressIds == 1..nextId.progress

HabitIds == 1..nextId.habit

LogIds == 1..nextId.log

JournalIds == 1..nextId.journal

GoalRequests(values) ==
    \/ \E u \in Users, b \in Users, cv \in values : GoalCreate(u, b, cv)
    \/ \E u \in Users : GoalList(u)
    \/ \E u \in Users, g \in GoalIds : GoalRetrieve(u, g)
    \/ \E u \in Users, g \in GoalIds, b \in Users, cv \in values : GoalUpdate(u, g, b, cv)
    \/ \E u \in Users, g \in GoalIds : GoalDestroy(u, g)

ProgressRequests(amounts) ==
    \/ \E u \in Users, g \in GoalIds, a \in amounts : ProgressCreate(u, g, a)
    \/ \E u \in Users : ProgressList(u)
    \/ \E u \in Users, p \in ProgressIds : ProgressRetrieve(u, p)
    \/ \E u \in Users, p \in ProgressIds, g \in GoalIds, a \in amounts : ProgressUpdate(u, p, g, a)
    \/ \E u \in Users, p \in ProgressIds : ProgressDestroy(u, p)

HabitRequests(names) ==
    \/ \E u \in Users, b \in Users, n \in names : HabitCreate(u, b, n)
    \/ \E u \in Users : HabitList(u)
    \/ \E u \in Users, h \in HabitIds : HabitRetrieve(u, h)
    \/ \E u \in Users, h \in HabitIds, b \in Users, n \in names : HabitUpdate(u, h, b, n)
    \/ \E u \in Users, h \in HabitIds : HabitDestroy(u, h)

LogRequests(dates) ==
    \/ \E u \in Users, h \in HabitIds, d \in dates : LogCreate(u, h, d)
    \/ \E u \in Users : LogList(u)
    \/ \E u \in Users, l \in LogIds : LogRetrieve(u, l)
    \/ \E u \in Users, l \in LogIds, h \in HabitIds, d \in dates : LogUpdate(u, l, h, d)
    \/ \E u \in Users, l \in LogIds : LogDestroy(u, l)

JournalRequests(dates) ==
    \/ \E u \in Users, b \in Users, d \in dates : JournalCreate(u, b, d)
    \/ \E u \in Users : JournalList(u)
    \/ \E u \in Users, j \in JournalIds : JournalRetrieve(u, j)
    \/ \E u \in Users, j \in JournalIds, b \in Users, d \in dates : JournalUpdate(u, j, b, d)
    \/ \E u \in Users, j \in JournalIds : JournalDestroy(u, j)

\* the whole API; the ownership rules do not read the values, one of each is drawn
Next ==
    \/ GoalRequests({0})
    \/ ProgressRequests({100})
    \/ HabitRequests({"n1"})
    \/ LogRequests({1})
    \/ JournalRequests({1})

Spec == Init /\ [][Next]_vars

\* the create, update and delete requests of the whole API
NextWrites ==
    \/ \E u \in Users, b \in Users : GoalCreate(u, b, 0)
    \/ \E u \in Users, g \in GoalIds, b \in Users : GoalUpdate(u, g, b, 0)
    \/ \E u \in Users, g \in GoalIds : GoalDestroy(u, g)
    \/ \E u \in Users, g \in GoalIds : ProgressCreate(u, g, 100)
    \/ \E u \in Users, p \in ProgressIds, g \in GoalIds : ProgressUpdate(u, p, g, 100)
    \/ \E u \in Users, p \in ProgressIds : ProgressDestroy(u, p)
    \/ \E u \in Users, b \in Users : HabitCreate(u, b, "n1")
    \/ \E u \in Users, h \in HabitIds, b \in Users : HabitUpdate(u, h, b, "n1")
    \/ \E u \in Users, h \in HabitIds : HabitDestroy(u, h)
    \/ \E u \in Users, h \in HabitIds : LogCreate(u, h, 1)
    \/ \E u \in Users, l \in LogIds, h \in HabitIds : LogUpdate(u, l, h, 1)
    \/ \E u \in Users, l \in LogIds : LogDestroy(u, l)
    \/ \E u \in Users, b \in Users : JournalCreate(u, b, 1)
    \/ \E u \in Users, j \in JournalIds, b \in Users : JournalUpdate(u, j, b, 1)
    \/ \E u \in Users, j \in JournalIds : JournalDestroy(u, j)

SpecWrites == Init /\ [][NextWrites]_vars

\* the goals app, with every value
NextGoals == GoalRequests(ValueSet) \/ ProgressRequests(AmountSet)

SpecGoals == Init /\ [][NextGoals]_vars

\* the habits app, with every value
NextHabits == HabitRequests(NameSet) \/ LogRequests(DateSet)

SpecHabits == Init /\ [][NextHabits]_vars

\* goals with any target, progress of either sign, and the goal statistics
NextTargets ==
    \/ \E u \in Users, tv \in TargetSet : GoalCreateTarget(u, u, tv, 0)
    \/ \E u \in Users, g \in GoalIds, tv \in TargetSet, cv \in ValueSet :
          GoalUpdateTarget(u, g, u, tv, cv)
    \/ \E u \in Users, g \in GoalIds, a \in SignedAmountSet : ProgressCreate(u, g, a)
    \/ \E u \in Users, p \in ProgressIds : ProgressDestroy(u, p)
    \/ \E u \in Users : GoalStats(u)

SpecTargets == Init /\ [][NextTargets]_vars

(***************************************************************************)
(* The statistics over stored logs and journal entries.  The database      *)
(* starts as create requests have left it: user A's logs (or journal       *)
(* entries) on any set of days up to MaxDay, user B's on every day.        *)
(***************************************************************************)
Days == 1..MaxDay

\* the days today ranges over: any stored day, the day after, the next Monday
Todays == 1..(MaxDay + 2)

\* logs of one habit on the given days, in the order of the days
LogsOn(h, dates) ==
    [i \in 1..Cardinality(dates) |-> [habit |-> h, date |-> SortedDates(dates)[i]]]

\* journal entries of one user on the given days
EntriesOn(u, dates) ==
    [i \in 1..Cardinality(dates) |-> [user |-> u, date |-> SortedDates(dates)[i]]]

InitStats ==
    /\ goals = <<>>
    /\ progress = <<>>
    /\ \E dates \in SUBSET Days :
         \/ \E other \in SUBSET {1, 2} :
              /\ habits = <<[user |-> "A", name |-> "n1"], [user |-> "A", name |-> "n2"],
                            [user |-> "B", name |-> "n1"]>>
              /\ logs = LogsOn(1, dates) \o LogsOn(2, other) \o LogsOn(3, Days)
              /\ journal = <<>>
         \/ /\ habits = <<>>
            /\ logs = <<>>
            /\ journal = EntriesOn("A", dates) \o EntriesOn("A", dates \cap {1})
                            \o EntriesOn("B", Days)
    /\ accounts = Registered
    /\ nextId = [goal |-> 1, progress |-> 1, habit |-> Len(habits) + 1,
                 log |-> Len(logs) + 1, journal |-> Len(journal) + 1]
    /\ resp = Response("-", 0, 0, {})
    /\ reqs = <<>>

\* the statistics requests of user A
NextStats ==
    \/ \E today \in Todays : HabitStats("A", today)
    \/ \E today \in Todays : JournalStats("A", today)

SpecStats == InitStats /\ [][NextStats]_vars

(***************************************************************************)
(* The reading endpoints: statistics and lists with query parameters, on   *)
(* stored rows of both users, between requests that change rows already    *)
(* stored.                                                                 *)
(***************************************************************************)
InitReads ==
    /\ \E tv \in TargetSet, cv \in ValueSet :
         goals = <<[user |-> "A", target_value |-> tv, current_value |-> cv],
                   [user |-> "A", target_value |-> 100, current_value |-> 100],
                   [user |-> "B", target_value |-> 100, current_value |-> 0]>>
    /\ progress = <<[goal |-> 2, amount |-> 100]>>
    /\ habits = <<[user |-> "A", name |-> "n1"], [user |-> "B", name |-> "n2"]>>
    /\ \E dates \in SUBSET DateSet : logs = LogsOn(1, dates) \o LogsOn(2, {1})
    /\ \E dates \in SUBSET DateSet : journal = EntriesOn("A", dates) \o EntriesOn("B", {2})
    /\ accounts = Registered
    /\ nextId = [goal |-> Len(goals) + 1, progress |-> Len(progress) + 1,
                 habit |-> Len(habits) + 1, log |-> Len(logs) + 1,
                 journal |-> Len(journal) + 1]
    /\ resp = Response("-", 0, 0, {})
    /\ reqs = <<>>

NextReads ==
    \/ \E u \in Users : GoalStats(u)
    \/ \E u \in Users, today \in DateSet : HabitStats(u, today)
    \/ \E u \in Users, today \in DateSet : JournalStats(u, today)
    \/ \E u \in Users, value \in BOOLEAN : GoalListFiltered(u, value)
    \/ \E u \in Users, g \in GoalIds : ProgressListFiltered(u, g)
    \/ \E u \in Users, term \in NameSet : HabitListSearch(u, term)
    \/ \E u \in Users, h \in HabitIds, d \in DateSet : LogListFiltered(u, h, d)
    \/ \E u \in Users, after \in DateSet, before \in DateSet :
         JournalListFiltered(u, after, before)
    \/ \E u \in Users, p \in ProgressIds : ProgressDestroy(u, p)
    \/ \E u \in Users, l \in LogIds : LogDestroy(u, l)
    \/ \E u \in Users, j \in JournalIds : JournalDestroy(u, j)

SpecReads == InitReads /\ [][NextReads]_vars

(***************************************************************************)
(* Registration on an empty user table, with the registered users asking   *)
(* for their profile.                                                      *)
(***************************************************************************)
InitAccounts ==
    /\ goals = <<>>
    /\ progress = <<>>
    /\ habits = <<>>
    /\ logs = <<>>
    /\ journal = <<>>
    /\ accounts = <<>>
    /\ nextId = [goal |-> 1, progress |-> 1, habit |-> 1, log |-> 1, journal |-> 1]
    /\ resp = Response("-", 0, 0, {})
    /\ reqs = <<>>

NextAccounts ==
    \/ \E username \in UsernameSet, password \in PasswordSet : Register(username, password)
    \/ \E i \in DOMAIN accounts : CurrentUser(accounts[i].username)

SpecAccounts == InitAccounts /\ [][NextAccounts]_vars

(***************************************************************************)
(* Every endpoint behind the permission, asked by the given callers, on    *)
(* stored rows of both users.                                              *)
(***************************************************************************)
GoalEndpoints(callers) ==
    \/ \E c \in callers : Guarded(c, GoalCreate(c, c, 0), "GoalCreate", 0)
    \/ \E c \in callers : Guarded(c, GoalList(c), "GoalList", 0)
    \/ \E c \in callers, g \in GoalIds : Guarded(c, GoalRetrieve(c, g), "GoalRetrieve", g)
    \/ \E c \in callers, g \in GoalIds : Guarded(c, GoalUpdate(c, g, c, 0), "GoalUpdate", g)
    \/ \E c \in callers, g \in GoalIds : Guarded(c, GoalDestroy(c, g), "GoalDestroy", g)
    \/ \E c \in callers : Guarded(c, GoalStats(c), "GoalStats", 0)

ProgressEndpoints(callers) ==
    \/ \E c \in callers, g \in GoalIds :
         Guarded(c, ProgressCreate(c, g, 100), "ProgressCreate", 0)
    \/ \E c \in callers : Guarded(c, ProgressList(c), "ProgressList", 0)
    \/ \E c \in callers, p \in ProgressIds :
         Guarded(c, ProgressRetrieve(c, p), "ProgressRetrieve", p)
    \/ \E c \in callers, p \in ProgressIds, g \in GoalIds :
         Guarded(c, ProgressUpdate(c, p, g, 100), "ProgressUpdate", p)
    \/ \E c \in callers, p \in ProgressIds :
         Guarded(c, ProgressDestroy(c, p), "ProgressDestroy", p)

HabitEndpoints(callers) ==
    \/ \E c \in callers : Guarded(c, HabitCreate(c, c, "n1"), "HabitCreate", 0)
    \/ \E c \in callers : Guarded(c, HabitList(c), "HabitList", 0)
    \/ \E c \in callers, h \in HabitIds : Guarded(c, HabitRetrieve(c, h), "HabitRetrieve", h)
    \/ \E c \in callers, h \in HabitIds :
         Guarded(c, HabitUpdate(c, h, c, "n1"), "HabitUpdate", h)
    \/ \E c \in callers, h \in HabitIds : Guarded(c, HabitDestroy(c, h), "HabitDestroy", h)
    \/ \E c \in callers : Guarded(c, HabitStats(c, 1), "HabitStats", 0)

LogEndpoints(callers) ==
    \/ \E c \in callers, h \in HabitIds : Guarded(c, LogCreate(c, h, 1), "LogCreate", 0)
    \/ \E c \in callers : Guarded(c, LogList(c), "LogList", 0)
    \/ \E c \in callers, l \in LogIds : Guarded(c, LogRetrieve(c, l), "LogRetrieve", l)
    \/ \E c \in callers, l \in LogIds, h \in HabitIds :
         Guarded(c, LogUpdate(c, l, h, 1), "LogUpdate", l)
    \/ \E c \in callers, l \in LogIds : Guarded(c, LogDestroy(c, l), "LogDestroy", l)

JournalEndpoints(callers) ==
    \/ \E c \in callers : Guarded(c, JournalCreate(c, c, 1), "JournalCreate", 0)
    \/ \E c \in callers : Guarded(c, JournalList(c), "JournalList", 0)
    \/ \E c \in callers, j \in JournalIds :
         Guarded(c, JournalRetrieve(c, j), "JournalRetrieve", j)
    \/ \E c \in callers, j \in JournalIds :
         Guarded(c, JournalUpdate(c, j, c, 1), "JournalUpdate", j)
    \/ \E c \in callers, j \in JournalIds :
         Guarded(c, JournalDestroy(c, j), "JournalDestroy", j)
    \/ \E c \in callers : Guarded(c, JournalStats(c, 1), "JournalStats", 0)

AccountEndpoints(callers) ==
    \E c \in callers : Guarded(c, CurrentUser(c), "CurrentUser", 0)

\* the callers of the permission specification: one user and the caller
\* without a credential
AuthCallers == {"A", Anonymous}

NextAuth ==
    \/ GoalEndpoints(AuthCallers)
    \/ ProgressEndpoints(AuthCallers)
    \/ HabitEndpoints(AuthCallers)
    \/ LogEndpoints(AuthCallers)
    \/ JournalEndpoints(AuthCallers)
    \/ AccountEndpoints(AuthCallers)

\* a goal of one user and a habit of the other are stored
InitAuth ==
    /\ goals = <<[user |-> "A", target_value |-> 100, current_value |-> 0]>>
    /\ progress = <<>>
    /\ habits = <<[user |-> "B", name |-> "n1"]>>
    /\ logs = <<>>
    /\ journal = <<>>
    /\ accounts = Registered
    /\ nextId = [goal |-> 2, progress |-> 1, habit |-> 2, log |-> 1, journal |-> 1]
    /\ resp = Response("-", 0, 0, {})
    /\ reqs = <<>>

SpecAuth == InitAuth /\ [][NextAuth]_vars

(***************************************************************************)
(* Goals whose current_value lies just under their target, with the goal   *)
(* statistics.                                                             *)
(***************************************************************************)
\* target_value and current_value a Goal request body carries here
PercentTargets == {0, 100, 201}

PercentValues == {0, 100, 200}

NextPercent ==
    \/ \E u \in Users, tv \in PercentTargets, cv \in PercentValues :
         GoalCreateTarget(u, u, tv, cv)
    \/ \E u \in Users, g \in GoalIds, tv \in PercentTargets, cv \in PercentValues :
         GoalUpdateTarget(u, g, u, tv, cv)
    \/ \E u \in Users : GoalStats(u)

SpecPercent == Init /\ [][NextPercent]_vars

(***************************************************************************)
(* Both users writing their rows, with the statistics requests of user A.  *)
(***************************************************************************)
NextIsolation ==
    \/ \E u \in Users : GoalCreate(u, u, 0)
    \/ \E u \in Users, g \in GoalIds : ProgressCreate(u, g, 100)
    \/ \E u \in Users : HabitCreate(u, u, "n1")
    \/ \E u \in Users, h \in HabitIds, d \in DateSet : LogCreate(u, h, d)
    \/ \E u \in Users, d \in DateSet : JournalCreate(u, u, d)
    \/ \E u \in Users, g \in GoalIds : GoalDestroy(u, g)
    \/ \E u \in Users, l \in LogIds : LogDestroy(u, l)
    \/ GoalStats("A")
    \/ \E today \in DateSet : HabitStats("A", today)
    \/ \E today \in DateSet : JournalStats("A", today)

SpecIsolation == Init /\ [][NextIsolation]_vars

\* the progress-sync requests on goals created with current_value 0
NextSync ==
    \/ \E u \in Users, b \in Users : GoalCreate(u, b, 0)
    \/ \E u \in Users, g \in GoalIds : GoalDestroy(u, g)
    \/ \E u \in Users, g \in GoalIds, a \in AmountSet : ProgressCreate(u, g, a)
    \/ \E u \in Users, p \in ProgressIds, g \in GoalIds, a \in AmountSet : ProgressUpdate(u, p, g, a)
    \/ \E u \in Users, p \in ProgressIds : ProgressDestroy(u, p)

SpecSync == Init /\ [][NextSync]_vars

(***************************************************************************)
(* The progress requests statement by statement: every database read and   *)
(* write of a handler is a step of its own, on the objects the request     *)
(* holds in memory.  No handler opens a transaction, each write commits    *)
(* as it is made.                                                          *)
(***************************************************************************)
NoGoal == [user |-> "-", target_value |-> 0, current_value |-> 0]

\* the requests in flight, oldest first
InFlight == 1..MaxInFlight

Drop(seq, r) == SubSeq(seq, 1, r - 1) \o SubSeq(seq, r + 1, Len(seq))

\* rows the requests in flight are still to insert
Reserved == Cardinality({r \in DOMAIN reqs : reqs[r].op = "ProgressCreate" /\ reqs[r].pc = "save"})

Request(op, pc, p, g, a, old, goal) ==
    [op |-> op, pc |-> pc, p |-> p, g |-> g, a |-> a, old |-> old, goal |-> goal]

At(r, op, pc) == r \in DOMAIN reqs /\ reqs[r].op = op /\ reqs[r].pc = pc

\* the primary key in the URL of the request
Pk(r) == IF reqs[r].op = "ProgressCreate" THEN 0 ELSE reqs[r].p

Finish(r, status, ids) ==
    /\ reqs' = Drop(reqs, r)
    /\ resp' = Response(reqs[r].op, Pk(r), status, ids)

\* create(): is_valid() loads the Goal; perform_create checks its owner
BeginCreate(limit, u, g, a) ==
    /\ Len(reqs) < limit
    /\ IF ~ProgressValid(g)
       THEN resp' = Invalid("ProgressCreate", 0, "does_not_exist") /\ UNCHANGED reqs
       ELSE IF GoalForbidden(u, goals[g])
       THEN resp' = Response("ProgressCreate", 0, 403, {}) /\ UNCHANGED reqs
       ELSE /\ RowsUsed + Reserved < MaxRows
            /\ reqs' = Append(reqs, Request("ProgressCreate", "save", 0, g, a, 0, goals[g]))
            /\ UNCHANGED resp
    /\ UNCHANGED db

\* progress = serializer.save()
StepCreateSave(r) ==
    /\ At(r, "ProgressCreate", "save")
    /\ LET id == nextId.progress
       IN /\ progress' = Insert(progress, id, [goal |-> reqs[r].g, amount |-> reqs[r].a])
          /\ nextId' = [nextId EXCEPT !.progress = id + 1]
          /\ reqs' = [reqs EXCEPT ![r].pc = "sync", ![r].p = id]
    /\ UNCHANGED <<goals, habits, logs, journal, resp, accounts>>

\* goal.current_value += progress.amount; goal.save()
StepCreateSync(r) ==
    /\ At(r, "ProgressCreate", "sync")
    /\ InRange(reqs[r].goal.current_value + reqs[r].a)
    /\ goals' = SaveRow(goals, reqs[r].g, Adjusted(reqs[r].goal, reqs[r].a))
    /\ Finish(r, 201, {reqs[r].p})
    /\ UNCHANGED <<progress, habits, logs, journal, nextId, accounts>>

\* update(): get_object() loads the entry
BeginUpdate(limit, u, p, g, a) ==
    /\ Len(reqs) < limit
    /\ IF p \notin ProgressQueryset(u)
       THEN resp' = Response("ProgressUpdate", p, 404, {}) /\ UNCHANGED reqs
       ELSE /\ reqs' = Append(reqs,
                           Request("ProgressUpdate", "validate", p, g, a, progress[p].amount, NoGoal))
            /\ UNCHANGED resp
    /\ UNCHANGED db

\* is_valid() loads the Goal the body names
StepUpdateValidate(r) ==
    /\ At(r, "ProgressUpdate", "validate")
    /\ IF ~ProgressValid(reqs[r].g)
       THEN /\ reqs' = Drop(reqs, r)
            /\ resp' = Invalid("ProgressUpdate", Pk(r), "does_not_exist")
       ELSE /\ reqs' = [reqs EXCEPT ![r].pc = "save", ![r].goal = goals[reqs[r].g]]
            /\ UNCHANGED resp
    /\ UNCHANGED db

\* old_amount = serializer.instance.amount; progress = serializer.save()
StepUpdateSave(r) ==
    /\ At(r, "ProgressUpdate", "save")
    /\ progress' = SaveRow(progress, reqs[r].p, [goal |-> reqs[r].g, amount |-> reqs[r].a])
    /\ reqs' = [reqs EXCEPT ![r].pc = "sync"]
    /\ UNCHANGED <<goals, habits, logs, journal, nextId, resp, accounts>>

\* goal = progress.goal; goal.current_value += amount_diff; goal.save()
StepUpdateSync(r) ==
    /\ At(r, "ProgressUpdate", "sync")
    /\ LET amount_diff == AmountDiff(reqs[r].a, reqs[r].old)
       IN /\ InRange(reqs[r].goal.current_value + amount_diff)
          /\ goals' = SaveRow(goals, reqs[r].g, Adjusted(reqs[r].goal, amount_diff))
    /\ Finish(r, 200, {reqs[r].p})
    /\ UNCHANGED <<progress, habits, logs, journal, nextId, accounts>>

\* destroy(): get_object() loads the entry
BeginDestroy(limit, u, p) ==
    /\ Len(reqs) < limit
    /\ IF p \notin ProgressQueryset(u)
       THEN resp' = Response("ProgressDestroy", p, 404, {}) /\ UNCHANGED reqs
       ELSE /\ reqs' = Append(reqs,
                           Request("ProgressDestroy", "load", p, progress[p].goal,
                                   progress[p].amount, 0, NoGoal))
            /\ UNCHANGED resp
    /\ UNCHANGED db

\* goal = instance.goal: the related Goal is fetched on first access
StepDestroyLoad(r) ==
    /\ At(r, "ProgressDestroy", "load")
    /\ reqs[r].g \in DOMAIN goals
    /\ reqs' = [reqs EXCEPT ![r].pc = "sync", ![r].goal = goals[reqs[r].g]]
    /\ UNCHANGED <<db, resp>>

\* goal.current_value -= instance.amount; goal.save()
StepDestroySync(r) ==
    /\ At(r, "ProgressDestroy", "sync")
    /\ InRange(reqs[r].goal.current_value - reqs[r].a)
    /\ goals' = SaveRow(goals, reqs[r].g, Adjusted(reqs[r].goal, -reqs[r].a))
    /\ reqs' = [reqs EXCEPT ![r].pc = "delete"]
    /\ UNCHANGED <<progress, habits, logs, journal, nextId, resp, accounts>>

\* instance.delete()
StepDestroyDelete(r) ==
    /\ At(r, "ProgressDestroy", "delete")
    /\ progress' = Remove(progress, {reqs[r].p})
    /\ Finish(r, 204, {})
    /\ UNCHANGED <<goals, habits, logs, journal, nextId, accounts>>

\* the request dies where it stands (an exception, a lost connection, a killed
\* worker): what it has written stays written
Fail(r) ==
    /\ r \in DOMAIN reqs
    /\ Finish(r, 500, {})
    /\ UNCHANGED db

\* the progress requests of user A on the one goal of user A (no other user can
\* write progress on it), at most limit of them in flight
StepRequests(limit) ==
    \/ nextId.goal = 1 /\ \E b \in Users : GoalCreate("A", b, 0)
    \/ \E g \in GoalIds, a \in AmountSet : BeginCreate(limit, "A", g, a)
    \/ \E p \in ProgressIds, g \in GoalIds, a \in AmountSet : BeginUpdate(limit, "A", p, g, a)
    \/ \E p \in ProgressIds : BeginDestroy(limit, "A", p)
    \/ \E r \in InFlight : StepCreateSave(r)
    \/ \E r \in InFlight : StepCreateSync(r)
    \/ \E r \in InFlight : StepUpdateValidate(r)
    \/ \E r \in InFlight : StepUpdateSave(r)
    \/ \E r \in InFlight : StepUpdateSync(r)
    \/ \E r \in InFlight : StepDestroyLoad(r)
    \/ \E r \in InFlight : StepDestroySync(r)
    \/ \E r \in InFlight : StepDestroyDelete(r)

\* one request at a time, which may fail at any statement
NextFail == StepRequests(1) \/ \E r \in InFlight : Fail(r)

SpecFail == Init /\ [][NextFail]_vars

\* requests interleaved, none failing
NextConc == StepRequests(MaxInFlight)

SpecConc == Init /\ [][NextConc]_vars

\* delete requests interleaved with one another; entries are created while no
\* request is in flight
NextDeletes ==
    \/ nextId.goal = 1 /\ \E b \in Users : GoalCreate("A", b, 0)
    \/ reqs = <<>> /\ \E g \in GoalIds, a \in AmountSet : ProgressCreate("A", g, a)
    \/ \E p \in ProgressIds : BeginDestroy(MaxInFlight, "A", p)
    \/ \E r \in InFlight : StepDestroyLoad(r)
    \/ \E r \in InFlight : StepDestroySync(r)
    \/ \E r \in InFlight : StepDestroyDelete(r)

SpecDeletes == Init /\ [][NextDeletes]_vars

\* one progress request at a time, statement by statement, with Goal update
\* requests between its statements
NextMixed ==
    \/ StepRequests(1)
    \/ \E g \in GoalIds, tv \in TargetSet : GoalUpdateTarget("A", g, "A", tv, 0)

SpecMixed == Init /\ [][NextMixed]_vars

(***************************************************************************)
(* A habit logged six days a week for fifteen weeks, and its statistics on  *)
(* days of the last three weeks: the later logs carry dates after today.   *)
(***************************************************************************)
MaxLongDay == 106

InitNinety ==
    /\ goals = <<>>
    /\ progress = <<>>
    /\ habits = <<[user |-> "A", name |-> "n1"]>>
    /\ logs = LogsOn(1, {d \in 1..MaxLongDay : d % 7 # 0})
    /\ journal = <<>>
    /\ accounts = Registered
    /\ nextId = [goal |-> 1, progress |-> 1, habit |-> Len(habits) + 1,
                 log |-> Len(logs) + 1, journal |-> 1]
    /\ resp = Response("-", 0, 0, {})
    /\ reqs = <<>>

\* the owner reads the statistics on days of the last three weeks and deletes
\* logs of the first days
NextNinety ==
    \/ \E today \in (MaxLongDay - 16)..(MaxLongDay - 13) : HabitStats("A", today)
    \/ \E l \in 1..4 : LogDestroy("A", l)

SpecNinety == InitNinety /\ [][NextNinety]_vars

\* the habit and log requests of the API with the habit statistics
NextRates ==
    \/ HabitRequests(NameSet)
    \/ LogRequests(DateSet)
    \/ \E u \in Users, today \in DateSet : HabitStats(u, today)

SpecRates == Init /\ [][NextRates]_vars

(***************************************************************************)
(* Properties.                                                             *)
(***************************************************************************)
EntriesOf(g) == {p \in DOMAIN progress : progress[p].goal = g}

RECURSIVE SumAmounts(_)
SumAmounts(S) ==
    IF S = {} THEN 0
    ELSE LET p == CHOOSE x \in S : TRUE
         IN progress[p].amount + SumAmounts(S \ {p})

Synced(g) == goals[g].current_value = SumAmounts(EntriesOf(g))

AllSynced == \A g \in DOMAIN goals : Synced(g)

\* C1: after any sequence of GoalProgress create, update and delete requests on
\* goals created with current_value 0, every goal's current_value is the sum of
\* the amounts of the entries that reference it.
C1_CurrentValueIsSum == AllSynced

\* C2: when a progress request has failed between its two writes and no request
\* is in flight, every goal's current_value is still the sum of its entries.
C2_FailureKeepsSync == (reqs = <<>> /\ resp.status = 500) => AllSynced

\* C3: when interleaved progress requests on one goal have all finished, the
\* goal's current_value is what running them one after another gives: the sum
\* of the amounts of the entries that remain.
C3_InterleavingSerializes == reqs = <<>> => AllSynced

ProgressOwner(p) == goals[progress[p].goal].user

LogOwner(l) == habits[logs[l].habit].user

\* C4: a GoalProgress create for a goal of another user, and a HabitLog create
\* for a habit of another user, ends in 403 and changes no stored row.
C4_ForeignParentCreateForbidden ==
    [][/\ \A u \in Users, g \in DOMAIN goals, a \in AmountSet :
            (goals[g].user # u /\ ProgressCreate(u, g, a))
                => (resp'.status = 403 /\ UNCHANGED db)
       /\ \A u \in Users, h \in DOMAIN habits, d \in DateSet :
            (habits[h].user # u /\ LogCreate(u, h, d))
                => (resp'.status = 403 /\ UNCHANGED db)]_vars

\* C5: an update of the caller's own GoalProgress or HabitLog that names a parent
\* of another user ends in 403 and changes no stored row.
C5_ForeignParentUpdateForbidden ==
    [][/\ \A u \in Users, p \in DOMAIN progress, g \in DOMAIN goals, a \in AmountSet :
            (ProgressOwner(p) = u /\ goals[g].user # u /\ ProgressUpdate(u, p, g, a))
                => (resp'.status = 403 /\ UNCHANGED db)
       /\ \A u \in Users, l \in DOMAIN logs, h \in DOMAIN habits, d \in DateSet :
            (LogOwner(l) = u /\ habits[h].user # u /\ LogUpdate(u, l, h, d))
                => (resp'.status = 403 /\ UNCHANGED db)]_vars

\* the rows of the other users are in the next state as they are in this one
ForeignUntouched(u) ==
    /\ \A g \in DOMAIN goals :
         goals[g].user # u => (g \in DOMAIN goals' /\ goals'[g] = goals[g])
    /\ \A p \in DOMAIN progress :
         ProgressOwner(p) # u => (p \in DOMAIN progress' /\ progress'[p] = progress[p])
    /\ \A h \in DOMAIN habits :
         habits[h].user # u => (h \in DOMAIN habits' /\ habits'[h] = habits[h])
    /\ \A l \in DOMAIN logs :
         LogOwner(l) # u => (l \in DOMAIN logs' /\ logs'[l] = logs[l])
    /\ \A j \in DOMAIN journal :
         journal[j].user # u => (j \in DOMAIN journal' /\ journal'[j] = journal[j])

\* the step is a list or retrieve request of user u
ReadBy(u) ==
    \/ GoalList(u) \/ ProgressList(u) \/ HabitList(u) \/ LogList(u) \/ JournalList(u)
    \/ LET i == resp'.pk
       IN \/ GoalRetrieve(u, i) \/ ProgressRetrieve(u, i) \/ HabitRetrieve(u, i)
          \/ LogRetrieve(u, i) \/ JournalRetrieve(u, i)

\* the rows a response to u holds are rows of u
BodyOwnedBy(u) ==
    /\ resp'.op \in {"GoalList", "GoalRetrieve"}
         => \A g \in resp'.ids : goals[g].user = u
    /\ resp'.op \in {"ProgressList", "ProgressRetrieve"}
         => \A p \in resp'.ids : ProgressOwner(p) = u
    /\ resp'.op \in {"HabitList", "HabitRetrieve"}
         => \A h \in resp'.ids : habits[h].user = u
    /\ resp'.op \in {"LogList", "LogRetrieve"}
         => \A l \in resp'.ids : LogOwner(l) = u
    /\ resp'.op \in {"JournalList", "JournalRetrieve"}
         => \A j \in resp'.ids : journal[j].user = u

\* the step is an update or delete request of user u
WriteBy(u) ==
    LET i == resp'.pk
    IN \/ GoalDestroy(u, i) \/ ProgressDestroy(u, i) \/ HabitDestroy(u, i)
       \/ LogDestroy(u, i) \/ JournalDestroy(u, i)
       \/ \E b \in Users, cv \in ValueSet : GoalUpdate(u, i, b, cv)
       \/ \E g \in IdSet, a \in AmountSet : ProgressUpdate(u, i, g, a)
       \/ \E b \in Users, n \in NameSet : HabitUpdate(u, i, b, n)
       \/ \E h \in IdSet, d \in DateSet : LogUpdate(u, i, h, d)
       \/ \E b \in Users, d \in DateSet : JournalUpdate(u, i, b, d)

\* C6: no list or retrieve of a user returns a row owned (directly or through
\* its parent) by another user, and no update or delete of a user changes or
\* removes such a row.
C6_UserIsolation ==
    [][\A u \in Users :
          /\ ReadBy(u) => BodyOwnedBy(u)
          /\ WriteBy(u) => ForeignUntouched(u)]_vars

\* the step is an update or delete request of u on an existing row of another user
ForeignWrite(u) ==
    LET i == resp'.pk
        op == resp'.op
    IN \/ /\ op \in {"GoalDestroy", "GoalUpdate"}
          /\ i \in DOMAIN goals /\ goals[i].user # u
          /\ \/ GoalDestroy(u, i)
             \/ \E b \in Users, cv \in ValueSet : GoalUpdate(u, i, b, cv)
       \/ /\ op \in {"ProgressDestroy", "ProgressUpdate"}
          /\ i \in DOMAIN progress /\ ProgressOwner(i) # u
          /\ \/ ProgressDestroy(u, i)
             \/ \E g \in IdSet, a \in AmountSet : ProgressUpdate(u, i, g, a)
       \/ /\ op \in {"HabitDestroy", "HabitUpdate"}
          /\ i \in DOMAIN habits /\ habits[i].user # u
          /\ \/ HabitDestroy(u, i)
             \/ \E b \in Users, n \in NameSet : HabitUpdate(u, i, b, n)
       \/ /\ op \in {"LogDestroy", "LogUpdate"}
          /\ i \in DOMAIN logs /\ LogOwner(i) # u
          /\ \/ LogDestroy(u, i)
             \/ \E h \in IdSet, d \in DateSet : LogUpdate(u, i, h, d)
       \/ /\ op \in {"JournalDestroy", "JournalUpdate"}
          /\ i \in DOMAIN journal /\ journal[i].user # u
          /\ \/ JournalDestroy(u, i)
             \/ \E b \in Users, d \in DateSet : JournalUpdate(u, i, b, d)

C8_OwnerIsCaller ==
    [][/\ \A u \in Users, b \in Users :
            /\ (resp'.op = "GoalCreate" /\ \E cv \in ValueSet : GoalCreate(u, b, cv))
                 => goals'[nextId.goal].user = u
            /\ (resp'.op = "HabitCreate" /\ \E n \in NameSet : HabitCreate(u, b, n))
                 => habits'[nextId.habit].user = u
            /\ (resp'.op = "JournalCreate" /\ \E d \in DateSet : JournalCreate(u, b, d))
                 => journal'[nextId.journal].user = u
       /\ \A g \in DOMAIN goals \cap DOMAIN goals' : goals'[g].user = goals[g].user
       /\ \A h \in DOMAIN habits \cap DOMAIN habits' : habits'[h].user = habits[h].user
       /\ \A j \in DOMAIN journal \cap DOMAIN journal' : journal'[j].user = journal[j].user]_vars

\* an update of a goal went through, and rows of the three types are stored
C8_Witness ==
    /\ resp.op = "GoalUpdate" /\ resp.status = 200
    /\ habits # <<>> /\ journal # <<>>

UniqueLogs ==
    \A l1 \in DOMAIN logs, l2 \in DOMAIN logs :
        (logs[l1].habit = logs[l2].habit /\ logs[l1].date = logs[l2].date) => l1 = l2

HasLog(h, d) == \E l \in DOMAIN logs : logs[l].habit = h /\ logs[l].date = d

\* C9: no step leads to two HabitLogs with the same (habit, date), and a create
\* for a pair that already has a log ends in 400 and changes no stored row.
C9_OneLogPerHabitAndDate ==
    [][/\ UniqueLogs'
       /\ resp'.op = "LogCreate"
            => \A u \in Users, h \in DOMAIN habits, d \in DateSet :
                 (HasLog(h, d) /\ LogCreate(u, h, d))
                     => (resp'.status = 400 /\ UNCHANGED db)]_vars

\* an update of a log was rejected as a duplicate of another log
C9_Witness ==
    /\ resp.op = "LogUpdate" /\ resp.code = "unique"
    /\ Cardinality(DOMAIN logs) = 2

\* C10: a create adds the amount to the parent goal's current_value, an update
\* adds new amount - old amount to the current_value of the goal the entry has
\* after it, a delete subtracts the entry's amount; on a goal at 0, create 100
\* gives 100, the update to 150 gives 150, the delete gives 0.
C10_SyncDeltas ==
    [][/\ (resp'.op = "ProgressCreate" /\ resp'.status = 201)
            => \A u \in Users, g \in DOMAIN goals, a \in AmountSet :
                 ProgressCreate(u, g, a)
                     => /\ goals'[g].current_value = goals[g].current_value + a
                        /\ (goals[g].current_value = 0 /\ a = 100)
                             => goals'[g].current_value = 100
       /\ (resp'.op = "ProgressUpdate" /\ resp'.status = 200)
            => \A u \in Users, g \in DOMAIN goals, a \in AmountSet :
                 LET p == resp'.pk
                 IN ProgressUpdate(u, p, g, a)
                     => /\ goals'[g].current_value =
                               goals[g].current_value + (a - progress[p].amount)
                        /\ (progress[p] = [goal |-> g, amount |-> 100]
                               /\ goals[g].current_value = 100 /\ a = 150)
                             => goals'[g].current_value = 150
       /\ (resp'.op = "ProgressDestroy" /\ resp'.status = 204)
            => \A u \in Users :
                 LET p == resp'.pk
                     g == progress[p].goal
                 IN ProgressDestroy(u, p)
                     => /\ goals'[g].current_value =
                               goals[g].current_value - progress[p].amount
                        /\ (progress[p].amount = 150 /\ goals[g].current_value = 150)
                             => goals'[g].current_value = 0]_vars

\* the entry of 100 was updated to 150 and its goal stands at 150
C10_Witness ==
    /\ resp.op = "ProgressUpdate" /\ resp.status = 200
    /\ \E p \in DOMAIN progress :
         /\ p = resp.pk
         /\ progress[p].amount = 150
         /\ goals[progress[p].goal].current_value = 150

InPercentRange(x) == RatLeq(Rat(0, 1), x) /\ RatLeq(x, Rat(100, 1))

\* C11: progress_percentage of every stored goal is in [0, 100].
C11_PercentageInRange ==
    \A g \in DOMAIN goals : InPercentRange(progress_percentage(goals[g]))

\* C12: progress_percentage of a stored goal with target_value 0 is 100 when its
\* current_value is >= 0, and 0 otherwise.
C12_ZeroTargetPercentage ==
    \A g \in DOMAIN goals :
        goals[g].target_value = 0
            => RatEq(progress_percentage(goals[g]),
                     Rat(IF goals[g].current_value >= 0 THEN 100 ELSE 0, 1))

\* C17: is_complete of a goal holds exactly when current_value >= target_value,
\* the statistics of a caller count exactly the caller's complete goals as
\* completed_goals, and completed_goals + in_progress_goals = total_goals.
C17_CompletedGoals ==
    [][resp'.op = "GoalStats"
         => \A u \in Users :
              GoalStats(u)
                => LET body == resp'.body
                       mine == GoalQueryset(u)
                   IN /\ \A g \in mine :
                           /\ is_complete(goals[g])
                                <=> goals[g].current_value >= goals[g].target_value
                           /\ body.goal_stats[g].is_complete = is_complete(goals[g])
                      /\ body.completed_goals =
                             Cardinality({g \in mine : is_complete(goals[g])})
                      /\ body.total_goals = Cardinality(mine)
                      /\ body.completed_goals + body.in_progress_goals
                             = body.total_goals]_vars

\* statistics that count a complete goal and one in progress, with a goal of
\* another user stored
C17_Witness ==
    /\ resp.op = "GoalStats"
    /\ resp.body.completed_goals = 1 /\ resp.body.in_progress_goals = 1
    /\ Cardinality(DOMAIN goals) = 3

\* the longest run of consecutive days in a set of days
LongestRun(dates) ==
    LET lengths == {n \in 0..Cardinality(dates) :
                      n = 0 \/ \E d \in dates : \A i \in 0..(n - 1) : (d + i) \in dates}
    IN CHOOSE n \in lengths : \A m \in lengths : m <= n

\* k days up to today are in the set and the day before them is not
IsCurrentStreak(k, dates, today) ==
    /\ \A i \in 0..(k - 1) : (today - i) \in dates
    /\ (today - k) \notin dates

\* the step may be a habit statistics request of u on day today: it agrees with
\* the response on the number of habits and on the Monday of the last bucket
MayBeHabitStats(u, today) ==
    /\ resp'.op = "HabitStats"
    /\ resp'.body.total_habits = Cardinality(HabitQueryset(u))
    /\ resp'.body.weekly_stats[8].week_start = today - weekday(today)

\* the step may be a journal statistics request of u
MayBeJournalStats(u) ==
    /\ resp'.op = "JournalStats"
    /\ resp'.body.total_entries = Cardinality(JournalQueryset(u))

\* C13: the current streak the habit and journal statistics report is the number
\* k with today, today-1, ..., today-(k-1) among the caller's dates and today-k
\* not among them; it is 0 when today is not among them.
C13_CurrentStreak ==
    [][\A u \in Users, today \in Todays :
         /\ (MayBeHabitStats(u, today) /\ HabitStats(u, today))
              => LET dates == {logs[l].date : l \in LogQueryset(u)}
                     k == resp'.body.current_streak
                 IN /\ IsCurrentStreak(k, dates, today)
                    /\ today \notin dates => k = 0
         /\ (MayBeJournalStats(u) /\ JournalStats(u, today))
              => LET dates == {journal[j].date : j \in JournalQueryset(u)}
                     k == resp'.body.current_streak
                 IN /\ IsCurrentStreak(k, dates, today)
                    /\ today \notin dates => k = 0]_vars

\* statistics of user A, whose logs are on today and the two days before it and
\* not on the day before those: a streak of 3
C13_Witness ==
    /\ resp.op = "HabitStats" /\ resp.body.current_streak = 3
    /\ resp.body.total_habits = 2
    /\ {logs[l].date : l \in LogQueryset("A")} = {2, 3, 4}

\* C14: the best streak the habit and journal statistics report is the length of
\* the longest run of consecutive days among the caller's dates, 0 when there
\* are none.
C14_BestStreak ==
    [][\A u \in Users, today \in Todays :
         /\ (MayBeHabitStats(u, today) /\ HabitStats(u, today))
              => resp'.body.best_streak
                   = LongestRun({logs[l].date : l \in LogQueryset(u)})
         /\ (MayBeJournalStats(u) /\ JournalStats(u, today))
              => resp'.body.best_streak
                   = LongestRun({journal[j].date : j \in JournalQueryset(u)})]_vars

\* journal statistics of user A over days {1, 2, 3, 6}: the scenario's
\* {d, d+1, d+2, d+5}, whose best streak is 3
C14_Witness ==
    /\ resp.op = "JournalStats" /\ resp.body.best_streak = 3
    /\ {journal[j].date : j \in JournalQueryset("A")} = {1, 2, 3, 6}

Abs(x) == IF x < 0 THEN -x ELSE x

\* C18: in every weekly bucket of the habit statistics, rate is an integer
\* nearest to completions / (habit_count * days_in_bucket) * 100, and it is 0
\* when habit_count * days_in_bucket is 0.
C18_WeeklyRate ==
    [][\A u \in Users, today \in Todays :
         (MayBeHabitStats(u, today) /\ HabitStats(u, today))
           => \A k \in 1..8 :
                LET bucket == resp'.body.weekly_stats[k]
                    monday == (today - weekday(today)) - (8 - k) * 7
                    bucket_days == {d \in monday..(monday + 6) : d <= today}
                    possible == Cardinality(HabitQueryset(u)) * Cardinality(bucket_days)
                    completions ==
                        Cardinality({l \in LogQueryset(u) : logs[l].date \in bucket_days})
                IN /\ possible = 0 => bucket.rate = 0
                   /\ possible > 0
                        => 2 * Abs(bucket.rate * possible - 100 * completions) <= possible]_vars

\* the current week on a Thursday with two habits and one log: 1 of 8, 12.5,
\* reported as 12
C18_Witness ==
    /\ resp.op = "HabitStats"
    /\ resp.body.weekly_stats[8] =
           [week_start |-> 1, completions |-> 1, possible |-> 8, rate |-> 12]

\* C15: a successful goal update whose body carries current_value stores
\* exactly that value, whatever the goal's progress entries add up to, and
\* changes no progress entry.  (A 200 is answered to the owner only, and the
\* body's target_value is the one found stored afterwards.)
C15_UpdateStoresBodyValue ==
    [][\A g \in GoalIds :
         (resp'.op = "GoalUpdate" /\ resp'.pk = g /\ resp'.status = 200)
           => \A cv \in ValueSet :
                GoalUpdateTarget(goals[g].user, g, goals[g].user,
                                 goals'[g].target_value, cv)
                  => /\ goals'[g].current_value = cv
                     /\ progress' = progress]_vars

\* an update has stored a value that is not the sum of the goal's entries
C15_Witness ==
    /\ resp.op = "GoalUpdate"
    /\ resp.status = 200
    /\ resp.pk \in DOMAIN goals
    /\ EntriesOf(resp.pk) # {}
    /\ goals[resp.pk].current_value # SumAmounts(EntriesOf(resp.pk))

ReadOps ==
    {"GoalStats", "HabitStats", "JournalStats",
     "GoalList", "ProgressList", "HabitList", "LogList", "JournalList"}

\* C19: a statistics request for goals, habits or the journal, and a list
\* request with filter or search parameters, leaves every stored record of
\* every table as it was.
C19_ReadsChangeNothing ==
    [][resp'.op \in ReadOps => db' = db]_vars

\* a filtered list has answered with some of the caller's goals, not all
C19_Witness ==
    /\ resp.op = "GoalList"
    /\ resp.ids # {}
    /\ \E u \in Users : resp.ids \subseteq GoalQueryset(u) /\ resp.ids # GoalQueryset(u)

\* the operation names of one group of endpoints
OpsOf(resource) ==
    {resource \o "Create", resource \o "List", resource \o "Retrieve",
     resource \o "Update", resource \o "Destroy", resource \o "Stats"}

\* a request to an endpoint behind the permission that carries no valid
\* credential (every endpoint answers under its own operation name)
AnonymousRequest ==
    \/ resp'.op \in OpsOf("Goal") /\ GoalEndpoints({Anonymous})
    \/ resp'.op \in OpsOf("Progress") /\ ProgressEndpoints({Anonymous})
    \/ resp'.op \in OpsOf("Habit") /\ HabitEndpoints({Anonymous})
    \/ resp'.op \in OpsOf("Log") /\ LogEndpoints({Anonymous})
    \/ resp'.op \in OpsOf("Journal") /\ JournalEndpoints({Anonymous})
    \/ resp'.op = "CurrentUser" /\ AccountEndpoints({Anonymous})

\* C16: every request without a valid credential to an endpoint other than
\* registration and token issue is answered 401 and changes no stored record.
C16_Unauthenticated ==
    [][AnonymousRequest => (resp'.status = 401 /\ db' = db)]_vars

\* a delete of a stored goal without a credential was turned away: the goal
\* is still stored
C16_Witness ==
    /\ resp.op = "GoalDestroy"
    /\ resp.status = 401
    /\ resp.pk \in DOMAIN goals

UniqueUsernames ==
    \A i, j \in DOMAIN accounts : accounts[i].username = accounts[j].username => i = j

\* C20: a registration with a username that is already taken, or without a
\* password, is answered 400 and creates no user; in every reachable state the
\* usernames of the stored users are pairwise different.
C20_Registration ==
    /\ []UniqueUsernames
    /\ [][resp'.op = "Register"
            => \A username \in UsernameSet, password \in PasswordSet :
                 (/\ Register(username, password)
                  /\ \/ password = Missing
                     \/ \E i \in DOMAIN accounts : accounts[i].username = username)
                   => (resp'.status = 400 /\ accounts' = accounts)]_vars

\* a registration with a taken username was refused with two users stored
C20_Witness ==
    /\ resp.op = "Register"
    /\ resp.status = 400
    /\ resp.code = "unique"
    /\ Len(accounts) = 2

\* day 1 is a Monday
IsMonday(d) == d % 7 = 1

\* C21: the eight weekly buckets of the habit statistics are listed oldest
\* first, each starts on a Monday, each but the last has seven days and is
\* followed at once by the next, and the last has the days from its Monday to
\* today, between 1 and 7.
C21_WeeklyBuckets ==
    [][\A u \in Users, today \in Todays :
         (MayBeHabitStats(u, today) /\ HabitStats(u, today))
           => LET weeks == resp'.body.weekly_stats
                  total_habits == resp'.body.total_habits
                  last_days == (today - weeks[8].week_start) + 1
              IN /\ \A k \in 1..8 : IsMonday(weeks[k].week_start)
                 /\ \A k \in 1..7 :
                      /\ weeks[k + 1].week_start = weeks[k].week_start + 7
                      /\ weeks[k].possible = total_habits * 7
                 /\ last_days \in 1..7
                 /\ weeks[8].possible = total_habits * last_days]_vars

\* statistics asked on the Monday of the second week, with two habits: the
\* last bucket has one day
C21_Witness ==
    /\ resp.op = "HabitStats"
    /\ resp.body.total_habits = 2
    /\ resp.body.weekly_stats[7].week_start = 1
    /\ resp.body.weekly_stats[8].week_start = 8
    /\ resp.body.weekly_stats[8].possible = 2

\* the dates of a user's logs and of a user's journal entries
LogDates(u) == {logs[l].date : l \in LogQueryset(u)}

EntryDates(u) == {journal[j].date : j \in JournalQueryset(u)}

\* C22: for every stored set of dates and every today, the backward walk of
\* the current streak ends after at most |set| + 1 membership tests, and the
\* scan of the best streak after |set| - 1 comparisons (none for the empty
\* set).
C22_StreaksTerminate ==
    \A u \in Users :
        \A dates \in {LogDates(u), EntryDates(u)} :
            /\ \A today \in Todays :
                 CountTests(dates, today, 0) <= Cardinality(dates) + 1
            /\ CountComparisons(SortedDates(dates), 2, 0)
                 = IF dates = {} THEN 0 ELSE Cardinality(dates) - 1

\* statistics whose walk went through the whole set: four days in a row
\* ending today
C22_Witness ==
    /\ resp.op = "HabitStats"
    /\ Cardinality(LogDates("A")) = 4
    /\ resp.body.current_streak = 4
    /\ resp.body.best_streak = 4

\* C23: concurrent delete requests for one progress entry subtract its amount
\* from the goal at most once: when they have finished, no goal stands below
\* the sum of the entries it still has.
C23_SubtractedOnce ==
    reqs = <<>> => \A g \in DOMAIN goals : goals[g].current_value >= SumAmounts(EntriesOf(g))

\* C24: a statement of a progress request (the only steps that change the
\* requests in flight) changes no field of a goal other than current_value,
\* also between the statements of which a Goal update was answered.
C24_ProgressKeepsGoalFields ==
    [][reqs' # reqs
         => \A g \in DOMAIN goals :
              /\ g \in DOMAIN goals'
              /\ goals'[g].user = goals[g].user
              /\ goals'[g].target_value = goals[g].target_value]_vars

\* C25: in every answer of the habit statistics and of the journal statistics
\* best_streak is at least current_streak, also when dates after today are
\* stored.
C25_BestAtLeastCurrent ==
    resp.op \in {"HabitStats", "JournalStats"}
        => resp.body.best_streak >= resp.body.current_streak

\* journal statistics with a streak of two that ends today, a longer run and
\* an entry after today
C25_Witness ==
    /\ resp.op = "JournalStats"
    /\ EntryDates("A") = {1, 2, 4, 5, 6}
    /\ resp.body.current_streak = 2
    /\ resp.body.best_streak = 3

\* the rows of every table that belong to u: goals, habits and journal entries
\* by their user, progress entries and logs by the user of their goal or habit
OwnRecords(u) ==
    LET own_goals == {g \in DOMAIN goals : goals[g].user = u}
        own_habits == {h \in DOMAIN habits : habits[h].user = u}
    IN <<[g \in own_goals |-> goals[g]],
         [p \in {q \in DOMAIN progress : progress[q].goal \in own_goals} |-> progress[p]],
         [h \in own_habits |-> habits[h]],
         [l \in {k \in DOMAIN logs : logs[k].habit \in own_habits} |-> logs[l]],
         [j \in {k \in DOMAIN journal : journal[k].user = u} |-> journal[j]]>>

\* C26: the goal, habit and journal statistics of a user are the same in two
\* states that agree on the user's own rows: a step that changes stored rows
\* but none of the user's leaves each of the three unchanged, for every today.
C26_StatsOfOwnRecords ==
    [][(db' # db /\ OwnRecords("A")' = OwnRecords("A"))
         => /\ GoalStatsBody("A")' = GoalStatsBody("A")
            /\ \A today \in DateSet :
                 /\ HabitStatsBody("A", today)' = HabitStatsBody("A", today)
                 /\ JournalStatsBody("A", today)' = JournalStatsBody("A", today)]_vars

\* habit statistics answered to A, who has a habit with a log of today, while
\* B has a habit stored
C26_Witness ==
    /\ resp.op = "HabitStats"
    /\ resp.body.total_habits = 1
    /\ resp.body.completions_today = 1
    /\ \E h \in DOMAIN habits : habits[h].user = "B"

\* C27: the percentage the goal statistics report for a goal is an integer
\* nearest to Goal.progress_percentage of that goal, for every target_value.
C27_StatsMatchProperty ==
    resp.op = "GoalStats"
        => \A g \in DOMAIN resp.body.goal_stats :
             LET exact == progress_percentage(goals[g])
             IN 2 * Abs(resp.body.goal_stats[g].percentage * exact.den - exact.num)
                    <= exact.den

\* C28: the goal statistics report a goal with target_value > 0 at 100 percent
\* only if they report it complete.
C28_FullOnlyIfComplete ==
    resp.op = "GoalStats"
        => \A g \in DOMAIN resp.body.goal_stats :
             (goals[g].target_value > 0 /\ resp.body.goal_stats[g].percentage = 100)
                => resp.body.goal_stats[g].is_complete

\* C29: every completion rate of the per-habit statistics lies between 0 and
\* 100, for logs on distinct dates before, on and after today.
C29_HabitRateInRange ==
    resp.op = "HabitStats"
        => \A k \in DOMAIN resp.body.habit_stats :
             resp.body.habit_stats[k].rate \in 0..100

\* C30: in every bucket of the weekly statistics the caller's logs number at
\* most habit count times days of the bucket, and the rate lies between 0 and
\* 100, whatever habits and logs the API has stored.
C30_WeeklyRateInRange ==
    resp.op = "HabitStats"
        => \A k \in 1..8 :
             LET bucket == resp.body.weekly_stats[k]
             IN /\ bucket.completions <= bucket.possible
                /\ bucket.rate \in 0..100

\* one habit logged on both days and the statistics on the second: the
\* current week holds 2 of 2
C30_Witness ==
    /\ resp.op = "HabitStats"
    /\ resp.body.total_habits = 1
    /\ resp.body.weekly_stats[8].completions = 2
    /\ resp.body.weekly_stats[8].possible = 2
    /\ resp.body.weekly_stats[8].rate = 100
====
